---- MODULE Spec2Model ----
(***************************************************************************)
(* Appointment slot resolution and booking-conflict engine of the clinic   *)
(* booking platform: the slot generator, the schedule resolution           *)
(* endpoints, the client-side slot derivation, and the booking, cancel     *)
(* and reschedule handlers over the appointments collection.               *)
(*                                                                         *)
(* Clock strings "HH:MM" are pairs <<hh, mm>>; a JavaScript Date on        *)
(* 2000-01-01 is its number of minutes since local midnight of that day.   *)
(* An absent (null, undefined) value is None, an absent string is "".      *)
(***************************************************************************)
EXTENDS Integers, Sequences, FiniteSets, TLC

VARIABLES
    gen,              \* one activation of the slot generator
    doctor_schedules, \* the doctor_schedules collection, in natural order
    res,              \* the last schedule resolution response and the slots a client derives from it
    appointments,     \* the appointments collection, in insertion order
    requests,         \* the _appointment collection (appointment requests)
    keyIndex,         \* TRUE once the unique index on appointmentKey exists
    now,              \* the wall clock read by new Date()
    procs,            \* the request handlers in flight, one per connection
    client            \* the slot list component: its props and its booked-slots state

vars == <<gen, doctor_schedules, res, appointments, requests, keyIndex, now, procs, client>>

None == <<>>

\* the slot list component before it is mounted: no props, an empty Set of booked
\* slots, no fetch of them answered
Unmounted == [doctorId |-> "", selectedDate |-> None, bookedSlots |-> {}, fetch |-> ""]

(***************************************************************************)
(* Bounds of the model.                                                    *)
(***************************************************************************)
\* the generator's loop is followed for at most this many pushed slots
MaxSlots == 6
\* the doctor_schedules collection holds at most this many documents
MaxDocs == 2
\* requests are accepted while the clock is below this; every write ticks the clock
MaxClock == 4
\* bookings are accepted while the appointments collection is smaller than this
MaxAppointments == 2
\* appointment requests are accepted while the _appointment collection is smaller than this
MaxRequests == 1
\* schedule writers insert while doctor_schedules holds fewer documents than this
MaxSchedules == 3

(***************************************************************************)
(* Clock times.                                                            *)
(***************************************************************************)
\* new Date(`2000-01-01T${hhmm}:00`): minutes since local midnight, 2000-01-01
ParseTime(hhmm) == hhmm[1] * 60 + hhmm[2]

\* date.toTimeString().slice(0, 5): the local "HH:MM" of a Date, whatever its day
FormatTime(minutes) == << (minutes \div 60) % 24, minutes % 60 >>

T(h, m) == <<h, m>>

(***************************************************************************)
(* SlotGenerator: generateTimeSlots / generateSlots.                       *)
(***************************************************************************)
\* the loop condition of a generator that takes the window as closed, [start, end]
LoopCondClosed(current, endTime) == current <= endTime

\* while (current < endTime)
LoopCond(current, endTime) == current < endTime

\* current.setMinutes(current.getMinutes() + duration)
NextCurrent(current, duration) == current + duration

\* if (!start || !end) return []
MissingBound(start, end) == start = None \/ end = None

GenIdle == [pc |-> "idle", start |-> None, end |-> None, duration |-> 0,
            current |-> 0, endTime |-> 0, slots |-> <<>>]

\* the call: the guard on absent bounds, then the two Dates are built
GenCall(start, end, duration) ==
    /\ gen.pc \in {"idle", "done"}
    /\ gen' = IF MissingBound(start, end)
              THEN [GenIdle EXCEPT !.pc = "done", !.start = start, !.end = end,
                                   !.duration = duration]
              ELSE [pc |-> "loop", start |-> start, end |-> end, duration |-> duration,
                    current |-> ParseTime(start), endTime |-> ParseTime(end),
                    slots |-> <<>>]
    /\ UNCHANGED <<client, doctor_schedules, res, appointments, requests, keyIndex, now, procs>>

\* one iteration of the while loop
GenLoop ==
    /\ gen.pc = "loop"
    /\ LoopCond(gen.current, gen.endTime)
    /\ Len(gen.slots) < MaxSlots
    /\ gen' = [gen EXCEPT !.slots = Append(@, FormatTime(gen.current)),
                          !.current = NextCurrent(@, gen.duration)]
    /\ UNCHANGED <<client, doctor_schedules, res, appointments, requests, keyIndex, now, procs>>

\* the loop condition fails: return slots
GenReturn ==
    /\ gen.pc = "loop"
    /\ ~LoopCond(gen.current, gen.endTime)
    /\ gen' = [gen EXCEPT !.pc = "done"]
    /\ UNCHANGED <<client, doctor_schedules, res, appointments, requests, keyIndex, now, procs>>

\* the generator as a function, for the durations with which its loop ends
RECURSIVE SlotsFrom(_, _, _)
SlotsFrom(current, endTime, duration) ==
    IF LoopCond(current, endTime)
    THEN <<FormatTime(current)>> \o SlotsFrom(NextCurrent(current, duration), endTime, duration)
    ELSE <<>>

generateTimeSlots(start, end, duration) ==
    IF MissingBound(start, end) THEN <<>>
    ELSE SlotsFrom(ParseTime(start), ParseTime(end), duration)

(***************************************************************************)
(* Schedule documents.  A date "YYYY-MM-DD" is the triple <<yyyy, mm, dd>>, *)
(* all dates lying in September 2025 (the 1st is a Monday); the server's   *)
(* local zone is taken to be UTC, so that new Date(date) falls on the same *)
(* calendar day.  An absent string is "", an absent slot list is NoSlots   *)
(* (an empty array is a list that is there), an absent allowOutsideRange   *)
(* is TRUE (the code tests !== false).  The day entries carry no date of   *)
(* their own.                                                              *)
(***************************************************************************)
NoSlots == <<None>>

Weekdays == <<"Monday", "Tuesday", "Wednesday", "Thursday", "Friday", "Saturday", "Sunday">>

Sep(dd) == <<2025, 9, dd>>

\* new Date(date).getTime(), in days
DateValue(date) == (date[1] * 12 + date[2]) * 31 + date[3]

\* new Date(date).toLocaleDateString("en-US", { weekday: "long" })
WeekdayOf(date) == Weekdays[((date[3] - 1) % 7) + 1]

\* parseInt(str)
parseInt(str) ==
    CASE str = "-30" -> 0 - 30
      [] str = "0" -> 0
      [] str = "15" -> 15
      [] str = "20" -> 20
      [] str = "30" -> 30
      [] str = "45" -> 45
      [] str = "60" -> 60

Day(dow, off, ms, me, es, ee, dur, mSlots, eSlots) ==
    [dayOfWeek |-> dow, isOffDay |-> off, morningStart |-> ms, morningEnd |-> me,
     eveningStart |-> es, eveningEnd |-> ee, slotduration |-> dur,
     morningSlots |-> mSlots, eveningSlots |-> eSlots]

ScheduleDoc(doctor, ws, we, days, ranges, allow) ==
    [doctorId |-> doctor, weekStart |-> ws, weekEnd |-> we, days |-> days,
     dateRanges |-> ranges, allowOutsideRange |-> allow]

\* the index of the first element of seq that passes Test, 0 when none does
FirstIndex(seq, Test(_)) ==
    IF \E i \in 1..Len(seq) : Test(seq[i])
    THEN CHOOSE i \in 1..Len(seq) : Test(seq[i]) /\ \A j \in 1..(i - 1) : ~Test(seq[j])
    ELSE 0

\* days.find(day => day.dayOfWeek === dow), and the $elemMatch / days.$ projections
FindDay(days, dow) ==
    LET i == FirstIndex(days, LAMBDA day : day.dayOfWeek = dow)
    IN  IF i = 0 THEN None ELSE days[i]

HasDay(doc, dow) == FindDay(doc.days, dow) # None

\* { doctorId, weekStart: { $lte: requestedDate }, weekEnd: { $gte: requestedDate } }
CoversDate(doc, doctor, date) ==
    /\ doc.doctorId = doctor
    /\ doc.weekStart # None /\ doc.weekEnd # None
    /\ DateValue(doc.weekStart) <= DateValue(date)
    /\ DateValue(date) <= DateValue(doc.weekEnd)

\* { doctorId, weekStart: { $exists: false }, weekEnd: { $exists: false } }
IsGeneral(doc, doctor) ==
    doc.doctorId = doctor /\ doc.weekStart = None /\ doc.weekEnd = None

\* db.collection("doctor_schedules").findOne(filter): the first match in natural order
FindSchedule(Filter(_)) == FirstIndex(doctor_schedules, Filter)

\* getDefaultSchedule(): Monday to Saturday 09:00-12:00 and 14:00-18:00, Sunday off
getDefaultSchedule ==
    [i \in 1..7 |->
        IF Weekdays[i] = "Sunday"
        THEN Day(Weekdays[i], TRUE, None, None, None, None, "30", NoSlots, NoSlots)
        ELSE Day(Weekdays[i], FALSE, T(9, 0), T(12, 0), T(14, 0), T(18, 0), "30", NoSlots, NoSlots)]

\* the default days literal of the schedule endpoint: 08:00-11:00 and 16:00-21:00
ScheduleDefaultDays ==
    [i \in 1..7 |->
        IF Weekdays[i] = "Sunday"
        THEN Day(Weekdays[i], TRUE, None, None, None, None, "30", NoSlots, NoSlots)
        ELSE Day(Weekdays[i], FALSE, T(8, 0), T(11, 0), T(16, 0), T(21, 0), "30", NoSlots, NoSlots)]

\* a response of a resolution endpoint
Response(endpoint, doctor, date, dowParam, status, type, docId, days, day, range, dow) ==
    [endpoint |-> endpoint, doctorId |-> doctor, date |-> date, dayOfWeekParam |-> dowParam,
     status |-> status, scheduleType |-> type, docId |-> docId, days |-> days,
     selectedDay |-> day, currentDateRange |-> range, dayOfWeek |-> dow]

DocDays(i) == IF i = 0 THEN <<>> ELSE doctor_schedules[i].days

(***************************************************************************)
(* GET /api/slots/optimized?doctorId&date&dayOfWeek                        *)
(***************************************************************************)
SlotsOptimizedGET(doctor, date, dayOfWeek) ==
    LET calc   == IF date = None THEN "" ELSE WeekdayOf(date)
        week   == IF date = None THEN 0
                  ELSE FindSchedule(LAMBDA doc : CoversDate(doc, doctor, date))
        general == IF date = None THEN 0
                   ELSE FindSchedule(LAMBDA doc : IsGeneral(doc, doctor) /\ HasDay(doc, calc))
        direct == IF dayOfWeek = "" THEN 0
                  ELSE FindSchedule(LAMBDA doc : doc.doctorId = doctor /\ HasDay(doc, dayOfWeek))
        any    == FindSchedule(LAMBDA doc : doc.doctorId = doctor)
        target == IF dayOfWeek # "" THEN dayOfWeek ELSE calc
        R(type, docId, days, day, dow) ==
            Response("slots-optimized", doctor, date, dayOfWeek, 200, type, docId, days, day, None, dow)
    IN  IF week # 0 /\ HasDay(doctor_schedules[week], calc)
        THEN R("week-specific", week, <<>>, FindDay(DocDays(week), calc), calc)
        ELSE IF general # 0
        THEN R("general-specific-day", general, <<>>, FindDay(DocDays(general), calc), calc)
        ELSE IF direct # 0
        THEN R("direct-day-lookup", direct, <<>>, FindDay(DocDays(direct), dayOfWeek), dayOfWeek)
        ELSE IF any # 0 /\ target # "" /\ HasDay(doctor_schedules[any], target)
        THEN R("fallback-full-schedule", any, <<>>, FindDay(DocDays(any), target), target)
        ELSE IF any # 0
        THEN R("full-week-schedule", any, DocDays(any), None, "")
        ELSE Response("slots-optimized", doctor, date, dayOfWeek, 404, "No schedule found",
                      0, <<>>, None, None, "")

(***************************************************************************)
(* GET /api/schedule-optimized/[doctorId]?date&dayOfWeek                   *)
(***************************************************************************)
\* checkDateInRange(date, weekStart, weekEnd)
checkDateInRange(date, weekStart, weekEnd) ==
    IF weekStart = None \/ weekEnd = None THEN TRUE
    ELSE DateValue(date) >= DateValue(weekStart) /\ DateValue(date) <= DateValue(weekEnd)

ScheduleOptimizedGET(doctor, date, dayOfWeek) ==
    LET dow == IF date # None /\ dayOfWeek = "" THEN WeekdayOf(date) ELSE dayOfWeek
        s1 == IF date # None /\ dow # ""
              THEN FindSchedule(LAMBDA doc : CoversDate(doc, doctor, date) /\ HasDay(doc, dow))
              ELSE 0
        s2 == IF dow # ""
              THEN FindSchedule(LAMBDA doc : IsGeneral(doc, doctor) /\ HasDay(doc, dow))
              ELSE 0
        s3 == IF dow # ""
              THEN FindSchedule(LAMBDA doc : doc.doctorId = doctor /\ HasDay(doc, dow))
              ELSE 0
        s4 == IF date # None
              THEN FindSchedule(LAMBDA doc : CoversDate(doc, doctor, date))
              ELSE 0
        s5 == FindSchedule(LAMBDA doc : IsGeneral(doc, doctor))
        s6 == FindSchedule(LAMBDA doc : doc.doctorId = doctor)
        R(type, docId, days, day) ==
            Response("schedule-optimized", doctor, date, dayOfWeek, 200, type, docId, days, day, None, dow)
        OneDay(i) == <<FindDay(DocDays(i), dow)>>
    IN  IF s1 # 0 THEN R("week-specific-optimized", s1, OneDay(s1), FindDay(DocDays(s1), dow))
        ELSE IF s2 # 0 THEN R("general-optimized", s2, OneDay(s2), FindDay(DocDays(s2), dow))
        ELSE IF s3 # 0
        THEN R(IF doctor_schedules[s3].weekStart # None
               THEN "week-specific-fallback" ELSE "general-fallback",
               s3, OneDay(s3), FindDay(DocDays(s3), dow))
        ELSE IF s4 # 0 THEN R("week-specific-full", s4, DocDays(s4), None)
        ELSE IF s5 # 0 THEN R("general-full", s5, DocDays(s5), None)
        ELSE IF s6 # 0 THEN R("any-available", s6, DocDays(s6), None)
        ELSE R("default", 0, getDefaultSchedule, None)

(***************************************************************************)
(* GET /api/schedule/[doctorId]?date                                       *)
(***************************************************************************)
\* schedule.dateRanges.find(range => requestedDate >= startDate && requestedDate <= endDate)
ApplicableRange(ranges, date) ==
    LET i == FirstIndex(ranges, LAMBDA r : /\ DateValue(date) >= DateValue(r.startDate)
                                           /\ DateValue(date) <= DateValue(r.endDate))
    IN  IF i = 0 THEN None ELSE ranges[i]

ScheduleGET(doctor, date) ==
    LET week == IF date = None THEN 0
                ELSE FindSchedule(LAMBDA doc : CoversDate(doc, doctor, date))
        general == FindSchedule(LAMBDA doc : IsGeneral(doc, doctor))
        any == FindSchedule(LAMBDA doc : doc.doctorId = doctor)
        dow == IF date = None THEN "" ELSE WeekdayOf(date)
        R(type, docId, days, range, d) ==
            Response("schedule", doctor, date, "", 200, type, docId, days, None, range, d)
    IN  IF week # 0 THEN R("week-specific", week, DocDays(week), None, dow)
        ELSE IF general # 0
        THEN LET doc == doctor_schedules[general]
             IN  IF date = None THEN R("general", general, doc.days, None, "")
                 ELSE IF doc.dateRanges = None THEN R("general", general, doc.days, None, dow)
                 ELSE IF ApplicableRange(doc.dateRanges, date) # None
                 THEN R("date-range-specific", general, doc.days,
                        ApplicableRange(doc.dateRanges, date), dow)
                 ELSE IF doc.allowOutsideRange
                 THEN R("general", general, doc.days, None, dow)
                 ELSE R("none", general, <<>>, None, dow)
        ELSE IF any # 0
        THEN R(IF doctor_schedules[any].weekStart # None
               THEN "week-specific-fallback" ELSE "general-fallback",
               any, DocDays(any), None, "")
        ELSE R("default", 0, ScheduleDefaultDays, None, "")

(***************************************************************************)
(* The slots a client derives from a schedule response.                    *)
(***************************************************************************)
\* parseInt(scheduleData.slotduration || "30")
SlotDuration(day) == parseInt(IF day.slotduration = "" THEN "30" ELSE day.slotduration)

\* one session of generateSlotsForDay / processScheduleSlots: the pre-calculated
\* list when there is one, else the generator on start and end, else nothing
SessionSlots(slots, start, end, duration) ==
    IF slots # NoSlots THEN slots
    ELSE IF start # None /\ end # None THEN generateTimeSlots(start, end, duration)
    ELSE <<>>

View(from, morning, evening) == [from |-> from, morning |-> morning, evening |-> evening]

\* generateSlotsForDay(daySchedule)
generateSlotsForDay(day) ==
    View(day,
         SessionSlots(day.morningSlots, day.morningStart, day.morningEnd, SlotDuration(day)),
         SessionSlots(day.eveningSlots, day.eveningStart, day.eveningEnd, SlotDuration(day)))

\* if (!daySchedule || daySchedule.isOffDay): no slots
OffDayGuard(day) == day = None \/ day.isOffDay

\* AppointmentBooking.generateTimeSlots(scheduleData), for selectedDate
BookingDialogSlots(data, selectedDate) ==
    LET dow == WeekdayOf(selectedDate)
        rangeDay == IF data.currentDateRange = None THEN None
                    ELSE FindDay(data.currentDateRange.days, dow)
        day == FindDay(data.days, dow)
    IN  IF rangeDay # None THEN generateSlotsForDay(rangeDay)
        ELSE IF OffDayGuard(day) THEN View(day, <<>>, <<>>)
        ELSE generateSlotsForDay(day)

\* OptimizedSlotBooking.processScheduleSlots(scheduleData)
processScheduleSlots(day) ==
    IF OffDayGuard(day) THEN View(day, <<>>, <<>>)
    ELSE generateSlotsForDay(day)

\* a load that marks an answer it has given just before
OptimizedSlotBookingReload(doctor, date, dayOfWeek) ==
    LET r == SlotsOptimizedGET(doctor, date, dayOfWeek)
    IN  [response |-> IF res # None /\ res.response = r
                      THEN [r EXCEPT !.scheduleType = "repeated"] ELSE r,
         view |-> IF r.status # 200 THEN None
                  ELSE IF r.scheduleType = "full-week-schedule" THEN View(None, <<>>, <<>>)
                  ELSE processScheduleSlots(r.selectedDay)]

\* a client loads the slots of (doctor, date): OptimizedSlotBooking asks
\* /api/slots/optimized with the date and the weekday name it computed itself
OptimizedSlotBookingLoad(doctor, date, dayOfWeek) ==
    LET r == SlotsOptimizedGET(doctor, date, dayOfWeek)
    IN  [response |-> r,
         view |-> IF r.status # 200 THEN None
                  ELSE IF r.scheduleType = "full-week-schedule" THEN View(None, <<>>, <<>>)
                  ELSE processScheduleSlots(r.selectedDay)]

\* AppointmentBooking.fetchAvailableSlots asks /api/schedule/[doctorId]?date
AppointmentBookingLoad(doctor, date) ==
    LET r == ScheduleGET(doctor, date)
    IN  [response |-> r, view |-> BookingDialogSlots(r, date)]

ResolveSlotsOptimized(doctor, date, dayOfWeek) ==
    /\ res' = OptimizedSlotBookingLoad(doctor, date, dayOfWeek)
    /\ UNCHANGED <<client, gen, doctor_schedules, appointments, requests, keyIndex, now, procs>>

ResolveScheduleOptimized(doctor, date, dayOfWeek) ==
    /\ res' = [response |-> ScheduleOptimizedGET(doctor, date, dayOfWeek), view |-> None]
    /\ UNCHANGED <<client, gen, doctor_schedules, appointments, requests, keyIndex, now, procs>>

ResolveSchedule(doctor, date) ==
    /\ res' = IF date = None
              THEN [response |-> ScheduleGET(doctor, date), view |-> None]
              ELSE AppointmentBookingLoad(doctor, date)
    /\ UNCHANGED <<client, gen, doctor_schedules, appointments, requests, keyIndex, now, procs>>

(***************************************************************************)
(* The appointments and _appointment collections.  A document's _id is its *)
(* position in insertion order; documents are never deleted.  The names,   *)
(* the address and sessionStartTime (a copy of time) are left out.  The    *)
(* clock ticks with every write, so two writes never read the same Date.   *)
(***************************************************************************)
Appointment(key, doctor, patient, date, time, status, at) ==
    [appointmentKey |-> key, doctorId |-> doctor, patientId |-> patient, date |-> date,
     time |-> time, status |-> status, createdAt |-> at, updatedAt |-> at]

\* the status test of a conflict check under which a pending appointment holds no slot
IsActiveConfirmedOnly(status) == status = "confirmed"

\* status: { $in: ["confirmed", "pending"] }
IsActive(status) == status \in {"confirmed", "pending"}

\* a conflict query that leaves the status filter out
FindConflictAnyStatus(doctor, date, time, except) ==
    LET Hit(i) == /\ i # except
                  /\ appointments[i].doctorId = doctor
                  /\ appointments[i].date = date
                  /\ appointments[i].time = time
    IN  IF \E i \in 1..Len(appointments) : Hit(i)
        THEN CHOOSE i \in 1..Len(appointments) : Hit(i) /\ \A j \in 1..(i - 1) : ~Hit(j)
        ELSE 0

\* a conflict query that leaves the _id filter out
FindConflictCountingSelf(doctor, date, time, except) ==
    LET Hit(i) == /\ appointments[i].doctorId = doctor
                  /\ appointments[i].date = date
                  /\ appointments[i].time = time
                  /\ appointments[i].status \in {"confirmed", "pending"}
    IN  IF \E i \in 1..Len(appointments) : Hit(i)
        THEN CHOOSE i \in 1..Len(appointments) : Hit(i) /\ \A j \in 1..(i - 1) : ~Hit(j)
        ELSE 0

\* appointments.findOne({ doctorId, date, time, status: { $in: [...] }, _id: { $ne: except } }):
\* the _id of the first match, 0 when there is none
FindConflict(doctor, date, time, except) ==
    LET Hit(i) == /\ i # except
                  /\ appointments[i].doctorId = doctor
                  /\ appointments[i].date = date
                  /\ appointments[i].time = time
                  /\ IsActive(appointments[i].status)
    IN  IF \E i \in 1..Len(appointments) : Hit(i)
        THEN CHOOSE i \in 1..Len(appointments) : Hit(i) /\ \A j \in 1..(i - 1) : ~Hit(j)
        ELSE 0

\* _appointment.findOne({ doctorId, date, time, status: "pending" })
FindPendingRequest(doctor, date, time) ==
    FirstIndex(requests, LAMBDA r : /\ r.doctorId = doctor /\ r.date = date
                                    /\ r.time = time /\ r.status = "pending")

\* two documents of the collection carry the same appointmentKey
HasDuplicateKeys ==
    \E i, j \in 1..Len(appointments) :
        i # j /\ appointments[i].appointmentKey = appointments[j].appointmentKey

\* ensureAppointmentIndexes(db): the unique sparse index on appointmentKey is built
\* unless the collection already holds a duplicate; the failure is swallowed
ensureAppointmentIndexes == keyIndex \/ ~HasDuplicateKeys

\* insertOne throws on a duplicate appointmentKey once the unique index exists
DuplicateKey(key) ==
    keyIndex /\ \E i \in 1..Len(appointments) : appointments[i].appointmentKey = key

(***************************************************************************)
(* Request handlers.  A handler runs from one await on the database to the *)
(* next; procs[p] is the handler running on connection p.                  *)
(***************************************************************************)
Request(doctor, patient, date, time, key, checkConflict, autoConfirm, id, status, newDate, newTime) ==
    [doctorId |-> doctor, patientId |-> patient, date |-> date, time |-> time,
     appointmentKey |-> key, checkConflict |-> checkConflict, autoConfirm |-> autoConfirm,
     appointmentId |-> id, status |-> status, newDate |-> newDate, newTime |-> newTime]

NoRequest == Request("", "", None, None, "", TRUE, FALSE, 0, "", None, None)

Err(status, error) == [status |-> status, success |-> FALSE, error |-> error]
Ok == [status |-> 200, success |-> TRUE, error |-> ""]
NoResponse == [status |-> 0, success |-> FALSE, error |-> ""]

Idle == [pc |-> "idle", handler |-> "", req |-> NoRequest, found |-> None, stamp |-> 0,
         resp |-> NoResponse, cursor |-> 0]

Started(handler, req, pc) == [Idle EXCEPT !.pc = pc, !.handler = handler, !.req = req]
Answered(handler, req, resp) ==
    [Idle EXCEPT !.pc = "done", !.handler = handler, !.req = req, !.resp = resp]

Goto(p, pc) == procs' = [procs EXCEPT ![p].pc = pc]
Answer(p, resp) == procs' = [procs EXCEPT ![p].pc = "done", ![p].resp = resp]
At(p, handler, pc) == procs[p].handler = handler /\ procs[p].pc = pc

\* a connection takes a request while the model's bounds leave room for its write
Accepts(p) == procs[p].pc = "idle" /\ now < MaxClock
BookingFits == Len(appointments) < MaxAppointments

\* if (!doctorId || !patientId || !date || !time)
MissingBookingFields(req) ==
    req.doctorId = "" \/ req.patientId = "" \/ req.date = None \/ req.time = None

\* a status taken from the autoConfirm flag of the body
InitialStatusByFlag(req) == IF req.autoConfirm THEN "confirmed" ELSE "pending"

\* status: "pending" of the appointment literal, whatever the body holds
InitialStatus(req) == "pending"

\* insertOne(appointment) with status "pending" and both timestamps new Date()
InsertAppointment(p, key, failure) ==
    LET r == procs[p].req
    IN  IF DuplicateKey(key)
        THEN /\ Answer(p, Err(500, failure))
             /\ UNCHANGED <<appointments, now>>
        ELSE /\ appointments' = Append(appointments,
                    Appointment(key, r.doctorId, r.patientId, r.date, r.time,
                                InitialStatus(r), now))
             /\ now' = now + 1
             /\ Answer(p, Ok)

(***************************************************************************)
(* POST /api/appointments                                                  *)
(***************************************************************************)
POST_Receive(p, req) ==
    /\ Accepts(p) /\ BookingFits
    /\ procs' = [procs EXCEPT ![p] =
          IF MissingBookingFields(req)
          THEN Answered("POST", req, Err(400, "Missing required fields"))
          ELSE Started("POST", req, "find")]
    /\ UNCHANGED <<client, gen, doctor_schedules, res, appointments, requests, keyIndex, now>>

POST_FindConflict(p) ==
    /\ At(p, "POST", "find")
    /\ LET r == procs[p].req
       IN  IF FindConflict(r.doctorId, r.date, r.time, 0) # 0
           THEN Answer(p, Err(400, "Time slot already booked"))
           ELSE Goto(p, "insert")
    /\ UNCHANGED <<client, gen, doctor_schedules, res, appointments, requests, keyIndex, now>>

\* appointmentKey || Math.floor(100000 + Math.random() * 900000).toString(), then insertOne
POST_Insert(p, random) ==
    /\ At(p, "POST", "insert")
    /\ InsertAppointment(p, IF procs[p].req.appointmentKey # ""
                            THEN procs[p].req.appointmentKey ELSE random,
                         "Failed to create appointment")
    /\ UNCHANGED <<client, gen, doctor_schedules, res, requests, keyIndex>>

(***************************************************************************)
(* POST /api/appointment-requests                                          *)
(***************************************************************************)
RequestsPOST_Receive(p, req) ==
    /\ Accepts(p)
    /\ IF req.autoConfirm THEN BookingFits ELSE Len(requests) < MaxRequests
    /\ procs' = [procs EXCEPT ![p] =
          IF MissingBookingFields(req)
          THEN Answered("RequestsPOST", req, Err(400, "Missing required fields"))
          ELSE Started("RequestsPOST", req, "find")]
    /\ UNCHANGED <<client, gen, doctor_schedules, res, appointments, requests, keyIndex, now>>

RequestsPOST_FindConflict(p) ==
    /\ At(p, "RequestsPOST", "find")
    /\ LET r == procs[p].req
       IN  IF FindConflict(r.doctorId, r.date, r.time, 0) # 0
           THEN Answer(p, Err(400, "Time slot already booked"))
           ELSE Goto(p, "findRequest")
    /\ UNCHANGED <<client, gen, doctor_schedules, res, appointments, requests, keyIndex, now>>

RequestsPOST_FindRequest(p) ==
    /\ At(p, "RequestsPOST", "findRequest")
    /\ LET r == procs[p].req
       IN  IF FindPendingRequest(r.doctorId, r.date, r.time) # 0
           THEN Answer(p, Err(400, "Appointment request already exists for this slot"))
           ELSE Goto(p, "insert")
    /\ UNCHANGED <<client, gen, doctor_schedules, res, appointments, requests, keyIndex, now>>

\* generateAppointmentKey(), then insertOne into appointments (autoConfirm) or _appointment
RequestsPOST_Insert(p, random) ==
    /\ At(p, "RequestsPOST", "insert")
    /\ LET r == procs[p].req
       IN  IF r.autoConfirm
           THEN /\ InsertAppointment(p, random, "Failed to create appointment request")
                /\ UNCHANGED requests
           ELSE /\ requests' = Append(requests,
                       Appointment(random, r.doctorId, r.patientId, r.date, r.time, "pending", now))
                /\ now' = now + 1
                /\ Answer(p, Ok)
                /\ UNCHANGED appointments
    /\ UNCHANGED <<client, gen, doctor_schedules, res, keyIndex>>

(***************************************************************************)
(* POST of appointments/booked-slots/route.ts, the optimized booking       *)
(***************************************************************************)
OptimizedPOST_Receive(p, req) ==
    /\ Accepts(p) /\ BookingFits
    /\ procs' = [procs EXCEPT ![p] =
          IF MissingBookingFields(req)
          THEN Answered("OptimizedPOST", req, Err(400, "Missing required fields"))
          ELSE Started("OptimizedPOST", req, IF req.checkConflict THEN "find" ELSE "insert")]
    /\ keyIndex' = IF MissingBookingFields(req) THEN keyIndex ELSE ensureAppointmentIndexes
    /\ UNCHANGED <<client, gen, doctor_schedules, res, appointments, requests, now>>

OptimizedPOST_FindConflict(p) ==
    /\ At(p, "OptimizedPOST", "find")
    /\ LET r == procs[p].req
       IN  IF FindConflict(r.doctorId, r.date, r.time, 0) # 0
           THEN Answer(p, Err(400, "Time slot already booked"))
           ELSE Goto(p, "insert")
    /\ UNCHANGED <<client, gen, doctor_schedules, res, appointments, requests, keyIndex, now>>

OptimizedPOST_Insert(p, random) ==
    /\ At(p, "OptimizedPOST", "insert")
    /\ InsertAppointment(p, IF procs[p].req.appointmentKey # ""
                            THEN procs[p].req.appointmentKey ELSE random,
                         "Failed to create appointment")
    /\ UNCHANGED <<client, gen, doctor_schedules, res, requests, keyIndex>>

(***************************************************************************)
(* PUT /api/appointments: a patient cancels                                *)
(***************************************************************************)
\* an update that writes the fields to every document of the collection
UpdateMany(id, fields) ==
    [i \in 1..Len(appointments) |->
        [f \in DOMAIN appointments[i] |->
            IF f \in DOMAIN fields THEN fields[f] ELSE appointments[i][f]]]

\* updateOne({ _id }, { $set: fields }): the collection after it
UpdateOne(id, fields) ==
    IF id \in 1..Len(appointments)
    THEN [appointments EXCEPT ![id] =
             [f \in DOMAIN @ |-> IF f \in DOMAIN fields THEN fields[f] ELSE @[f]]]
    ELSE appointments

PUT_Receive(p, req) ==
    /\ Accepts(p)
    /\ procs' = [procs EXCEPT ![p] =
          IF req.appointmentId = 0 \/ req.status = "" \/ req.patientId = ""
          THEN Answered("PUT", req, Err(400, "Missing required fields"))
          ELSE IF req.status # "cancelled"
          THEN Answered("PUT", req, Err(403, "Patients can only cancel appointments"))
          ELSE Started("PUT", req, "find")]
    /\ UNCHANGED <<client, gen, doctor_schedules, res, appointments, requests, keyIndex, now>>

\* findOne({ _id, patientId }), then the already-cancelled test
PUT_Find(p) ==
    /\ At(p, "PUT", "find")
    /\ LET r == procs[p].req
           hit == /\ r.appointmentId \in 1..Len(appointments)
                  /\ appointments[r.appointmentId].patientId = r.patientId
       IN  IF ~hit
           THEN Answer(p, Err(404, "Appointment not found or unauthorized"))
           ELSE IF appointments[r.appointmentId].status = "cancelled"
           THEN procs' = [procs EXCEPT ![p].pc = "done",
                                       ![p].found = appointments[r.appointmentId],
                                       ![p].resp = Err(400, "Appointment is already cancelled")]
           ELSE procs' = [procs EXCEPT ![p].pc = "update",
                                       ![p].found = appointments[r.appointmentId]]
    /\ UNCHANGED <<client, gen, doctor_schedules, res, appointments, requests, keyIndex, now>>

\* updateOne({ _id }, { $set: { status: "cancelled", updatedAt: new Date() } })
PUT_Update(p) ==
    /\ At(p, "PUT", "update")
    /\ LET after == UpdateOne(procs[p].req.appointmentId,
                              [status |-> "cancelled", updatedAt |-> now])
       IN  /\ appointments' = after
           /\ IF after = appointments
              THEN Answer(p, Err(500, "Failed to cancel appointment")) /\ UNCHANGED now
              ELSE Answer(p, Ok) /\ now' = now + 1
    /\ UNCHANGED <<client, gen, doctor_schedules, res, requests, keyIndex>>

(***************************************************************************)
(* PUT of appointments/booked-slots/route.ts: status update and reschedule *)
(***************************************************************************)
OptimizedPUT_Receive(p, req) ==
    /\ Accepts(p)
    /\ LET missing == req.appointmentId = 0 \/ req.status = ""
       IN  /\ procs' = [procs EXCEPT ![p] =
                 IF missing
                 THEN Answered("OptimizedPUT", req, Err(400, "Missing required fields"))
                 ELSE Started("OptimizedPUT", req, "find")]
           /\ keyIndex' = IF missing THEN keyIndex ELSE ensureAppointmentIndexes
    /\ UNCHANGED <<client, gen, doctor_schedules, res, appointments, requests, now>>

\* findQuery: _id, and patientId / doctorId when the request carries them
OptimizedPUT_Matches(req) ==
    /\ req.appointmentId \in 1..Len(appointments)
    /\ req.patientId # "" => appointments[req.appointmentId].patientId = req.patientId
    /\ req.doctorId # "" => appointments[req.appointmentId].doctorId = req.doctorId

\* findOne(findQuery); updateFields = { status, updatedAt: new Date() }
OptimizedPUT_Find(p) ==
    /\ At(p, "OptimizedPUT", "find")
    /\ LET r == procs[p].req
       IN  IF ~OptimizedPUT_Matches(r)
           THEN Answer(p, Err(404, "Appointment not found or unauthorized"))
           ELSE procs' = [procs EXCEPT
                    ![p].pc = IF r.newDate # None /\ r.newTime # None
                              THEN "findConflict" ELSE "update",
                    ![p].found = appointments[r.appointmentId],
                    ![p].stamp = now]
    /\ UNCHANGED <<client, gen, doctor_schedules, res, appointments, requests, keyIndex, now>>

\* the conflict check of a reschedule, the appointment itself excluded
OptimizedPUT_FindConflict(p) ==
    /\ At(p, "OptimizedPUT", "findConflict")
    /\ LET r == procs[p].req
       IN  IF FindConflict(procs[p].found.doctorId, r.newDate, r.newTime, r.appointmentId) # 0
           THEN Answer(p, Err(400, "New time slot already booked"))
           ELSE Goto(p, "update")
    /\ UNCHANGED <<client, gen, doctor_schedules, res, appointments, requests, keyIndex, now>>

\* updateOne({ _id }, { $set: updateFields })
OptimizedPUT_Update(p) ==
    /\ At(p, "OptimizedPUT", "update")
    /\ LET r == procs[p].req
           after == UpdateOne(r.appointmentId,
                       IF r.newDate # None /\ r.newTime # None
                       THEN [status |-> r.status, updatedAt |-> procs[p].stamp,
                             date |-> r.newDate, time |-> r.newTime]
                       ELSE [status |-> r.status, updatedAt |-> procs[p].stamp])
       IN  /\ appointments' = after
           /\ IF after = appointments
              THEN Answer(p, Err(500, "Failed to update appointment")) /\ UNCHANGED now
              ELSE Answer(p, Ok) /\ now' = now + 1
    /\ UNCHANGED <<client, gen, doctor_schedules, res, requests, keyIndex>>

(***************************************************************************)
(* HEAD of appointments/booked-slots/route.ts: is the slot free            *)
(***************************************************************************)
\* new NextResponse(null, { status, headers: { 'X-Slot-Status': slotStatus } })
SlotStatus(status, slotStatus) ==
    [status |-> status, success |-> FALSE, error |-> "", slotStatus |-> slotStatus]

HEAD_Receive(p, req) ==
    /\ procs[p].pc = "idle"
    /\ LET missing == req.doctorId = "" \/ req.date = None \/ req.time = None
       IN  /\ procs' = [procs EXCEPT ![p] =
                 IF missing
                 THEN Answered("HEAD", req, SlotStatus(400, ""))
                 ELSE Started("HEAD", req, "find")]
           /\ keyIndex' = IF missing THEN keyIndex ELSE ensureAppointmentIndexes
    /\ UNCHANGED <<client, gen, doctor_schedules, res, appointments, requests, now>>

HEAD_Find(p) ==
    /\ At(p, "HEAD", "find")
    /\ LET r == procs[p].req
       IN  IF FindConflict(r.doctorId, r.date, r.time, 0) # 0
           THEN Answer(p, SlotStatus(409, "unavailable"))
           ELSE Answer(p, SlotStatus(200, "available"))
    /\ UNCHANGED <<client, gen, doctor_schedules, res, appointments, requests, keyIndex, now>>

(***************************************************************************)
(* A failing lookup: findOne throws (the storage is unreachable) and the   *)
(* handler's catch answers 500.                                            *)
(***************************************************************************)
POST_LookupFails(p) ==
    /\ At(p, "POST", "find")
    /\ Answer(p, Err(500, "Failed to create appointment"))
    /\ UNCHANGED <<client, gen, doctor_schedules, res, appointments, requests, keyIndex, now>>

RequestsPOST_LookupFails(p) ==
    /\ At(p, "RequestsPOST", "find") \/ At(p, "RequestsPOST", "findRequest")
    /\ Answer(p, Err(500, "Failed to create appointment request"))
    /\ UNCHANGED <<client, gen, doctor_schedules, res, appointments, requests, keyIndex, now>>

OptimizedPOST_LookupFails(p) ==
    /\ At(p, "OptimizedPOST", "find")
    /\ Answer(p, Err(500, "Failed to create appointment"))
    /\ UNCHANGED <<client, gen, doctor_schedules, res, appointments, requests, keyIndex, now>>

(***************************************************************************)
(* GET /api/appointments/booked-slots and the slot list component that     *)
(* asks it (OptimizedSlotBooking).                                         *)
(***************************************************************************)
\* `${appointmentDate}_${time}`, the string a booked slot is listed as
BookedSlotKey(date, time) == [date |-> date, time |-> time]

\* slot.time, the "HH:MM" string the component looks up in the Set
SlotTimeKey(time) == [date |-> None, time |-> time]

\* the BSON type of a stored date: every handler stores the body's string
BSONType(value) == "string"

\* find({ doctorId, date: { $gte: startOfDay, $lt: endOfDay }, status: { $in: [...] } }):
\* the range operands are Dates, and a comparison matches values of the operand's type
BookedSlotsGET(doctor, date) ==
    LET InDay(stored) == /\ BSONType(stored) = "date"
                         /\ DateValue(date) <= DateValue(stored)
                         /\ DateValue(stored) < DateValue(date) + 1
        booked == { i \in 1..Len(appointments) :
                      /\ appointments[i].doctorId = doctor
                      /\ InDay(appointments[i].date)
                      /\ appointments[i].status \in {"confirmed", "pending"} }
    IN  { BookedSlotKey(appointments[i].date, appointments[i].time) : i \in booked }

\* the component is rendered with its props
Mount(doctor, date) ==
    /\ client = Unmounted
    /\ client' = [client EXCEPT !.doctorId = doctor, !.selectedDate = date]
    /\ UNCHANGED <<gen, doctor_schedules, res, appointments, requests, keyIndex, now, procs>>

\* fetchOptimizedSchedule(): the schedule of the selected date, then processScheduleSlots
FetchOptimizedSchedule ==
    /\ client.doctorId # "" /\ client.selectedDate # None
    /\ res' = OptimizedSlotBookingLoad(client.doctorId, client.selectedDate,
                                       WeekdayOf(client.selectedDate))
    /\ UNCHANGED <<client, gen, doctor_schedules, appointments, requests, keyIndex, now, procs>>

\* fetchBookedSlots(): setBookedSlots on an ok response; a response that is not ok
\* and a fetch that throws leave the Set as it is
FetchBookedSlots(ok) ==
    /\ client.doctorId # "" /\ client.selectedDate # None
    /\ client' = IF ok
                 THEN [client EXCEPT !.fetch = "ok",
                          !.bookedSlots = BookedSlotsGET(client.doctorId, client.selectedDate)]
                 ELSE [client EXCEPT !.fetch = "failed"]
    /\ UNCHANGED <<gen, doctor_schedules, res, appointments, requests, keyIndex, now, procs>>

\* updateSlotAvailability(slots)
updateSlotAvailability(slots) ==
    [i \in 1..Len(slots) |->
        [time |-> slots[i], available |-> SlotTimeKey(slots[i]) \notin client.bookedSlots]]

\* optimizedMorningSlots and optimizedEveningSlots, the buttons of the list
RenderedSlots ==
    IF res = None \/ res.view = None THEN <<>>
    ELSE updateSlotAvailability(res.view.morning) \o updateSlotAvailability(res.view.evening)

\* the response has been sent; the connection takes the next request
Reply(p) ==
    /\ procs[p].pc = "done"
    /\ procs' = [procs EXCEPT ![p] = Idle]
    /\ UNCHANGED <<client, gen, doctor_schedules, res, appointments, requests, keyIndex, now>>

(***************************************************************************)
(* Inputs: doctors, dates, and the schedule documents a store may hold.    *)
(***************************************************************************)
Doctors == {"d1", "d2"}
Dates == {Sep(15), Sep(16), Sep(22)}
DayParams == {"", "Monday", "Tuesday"}

MonOpen == Day("Monday", FALSE, T(9, 0), T(10, 0), None, None, "30", NoSlots, NoSlots)
TueOff == Day("Tuesday", TRUE, None, None, None, None, "30", NoSlots, NoSlots)
MonCached == Day("Monday", FALSE, T(10, 0), T(11, 0), T(15, 0), T(16, 0), "30",
                 <<T(10, 0), T(10, 30)>>, <<T(15, 0), T(15, 30)>>)
TueOffWithFields == Day("Tuesday", TRUE, T(9, 0), T(10, 0), None, None, "30",
                        <<T(9, 0), T(9, 30)>>, NoSlots)
TueShort == Day("Tuesday", FALSE, T(9, 0), T(9, 30), None, None, "15", NoSlots, <<>>)

DayLists == { <<MonOpen, TueOff>>, <<MonCached, TueOffWithFields>>, <<TueShort>> }
WeekBounds == { <<Sep(15), Sep(21)>>, <<Sep(22), Sep(28)>> }
SeptemberRange ==
    << [startDate |-> Sep(1), endDate |-> Sep(21), days |-> <<MonCached, TueOffWithFields>>] >>

DocMenu ==
    { ScheduleDoc("d1", None, None, days, None, TRUE) : days \in DayLists }
    \cup { ScheduleDoc("d1", None, None, days, SeptemberRange, allow) :
              days \in DayLists, allow \in BOOLEAN }
    \cup { ScheduleDoc("d1", w[1], w[2], days, None, TRUE) : w \in WeekBounds, days \in DayLists }
    \cup { ScheduleDoc("d2", None, None, <<MonOpen, TueOff>>, None, TRUE) }

Stores == UNION { [1..n -> DocMenu] : n \in 0..MaxDocs }

ResolveInit ==
    /\ gen = GenIdle
    /\ doctor_schedules \in Stores
    /\ res = None
    /\ appointments = <<>>
    /\ requests = <<>>
    /\ keyIndex = FALSE
    /\ now = 1
    /\ procs = <<>>
    /\ client = Unmounted

ResolveNext ==
    \/ \E d \in Doctors, date \in Dates \cup {None}, dow \in DayParams :
          ResolveSlotsOptimized(d, date, dow)
    \/ \E d \in Doctors, date \in Dates \cup {None}, dow \in DayParams :
          ResolveScheduleOptimized(d, date, dow)
    \/ \E d \in Doctors, date \in Dates \cup {None} : ResolveSchedule(d, date)

SpecResolve == ResolveInit /\ [][ResolveNext]_vars

\* inputs of the generator
GenWindows ==
    ({T(9, 0), T(9, 30), T(10, 0)} \X {T(9, 30), T(10, 0), T(10, 20)})
        \cup {<<T(23, 30), T(23, 59)>>, <<None, T(10, 0)>>, <<T(9, 0), None>>, <<None, None>>}
GenDurations == {-30, 0, 15, 20, 30, 60}

SlotsInit ==
    /\ gen = GenIdle
    /\ doctor_schedules = <<>>
    /\ res = None
    /\ appointments = <<>>
    /\ requests = <<>>
    /\ keyIndex = FALSE
    /\ now = 1
    /\ procs = <<>>
    /\ client = Unmounted

SlotsNext ==
    \/ \E w \in GenWindows, d \in GenDurations : GenCall(w[1], w[2], d)
    \/ GenLoop
    \/ GenReturn

SpecSlots == SlotsInit /\ [][SlotsNext]_vars

(***************************************************************************)
(* Requests in sequence: one connection, the next request after the reply. *)
(* Doctor d1 works Monday 09:00-10:00 in half-hour slots, doctor d2 has    *)
(* Monday off; every booking is for Monday 2025-09-15.                     *)
(***************************************************************************)
MonOff == Day("Monday", TRUE, T(9, 0), T(10, 0), None, None, "30", NoSlots, NoSlots)

BookingSchedules ==
    << ScheduleDoc("d1", None, None, <<MonOpen, TueOff>>, None, TRUE),
       ScheduleDoc("d2", None, None, <<MonOff>>, None, TRUE) >>

Patients == {"p1", "p2"}
RandomKeys == {"111111", "222222"}
BookingTimes == {T(9, 0), T(9, 15)}
BookingParties == {<<"d1", "p1">>, <<"d1", "p2">>, <<"d2", "p2">>}

Booking(party, time, key, checkConflict, autoConfirm) ==
    Request(party[1], party[2], Sep(15), time, key, checkConflict, autoConfirm, 0, "", None, None)

PostRequests ==
    { Booking(party, time, key, TRUE, FALSE) :
          party \in BookingParties, time \in BookingTimes, key \in {"", "111111"} }
    \cup { Booking(<<"d1", "p1">>, None, "", TRUE, FALSE) }
    \cup { Booking(<<"d1", "p1">>, T(9, 0), "42", TRUE, FALSE) }

RequestsPostRequests ==
    { Booking(party, T(9, 0), "", TRUE, auto) : party \in BookingParties, auto \in BOOLEAN }
    \cup { Booking(<<"d1", "">>, T(9, 0), "", TRUE, FALSE) }

OptimizedPostRequests ==
    { Booking(party, T(9, 0), key, check, FALSE) :
          party \in BookingParties, key \in {"", "111111"}, check \in BOOLEAN }
    \cup { Booking(<<"", "p1">>, T(9, 0), "", TRUE, FALSE) }

StatusUpdate(id, patient, doctor, status, newDate, newTime) ==
    Request(doctor, patient, None, None, "", TRUE, FALSE, id, status, newDate, newTime)

PutRequests ==
    { StatusUpdate(id, patient, "", "cancelled", None, None) :
          id \in 1..MaxAppointments, patient \in Patients }
    \cup { StatusUpdate(1, "p1", "", "confirmed", None, None),
           StatusUpdate(1, "", "", "cancelled", None, None) }

OptimizedPutRequests ==
    { StatusUpdate(id, patient, doctor, status, None, None) :
          id \in 1..MaxAppointments, patient \in Patients \cup {""}, doctor \in {"", "d1"},
          status \in {"cancelled", "confirmed", "pending"} }
    \cup { StatusUpdate(1, "p1", "", "pending", Sep(15), time) : time \in BookingTimes }
    \cup { StatusUpdate(0, "p1", "", "cancelled", None, None) }
    \cup { StatusUpdate(2, "", "d1", "confirmed", Sep(22), T(9, 0)) }
    \cup { StatusUpdate(1, "", "", status, None, None) :
              status \in {"completed", "rejected", "no-show"} }

HeadRequests ==
    { Request(doctor, "", Sep(15), time, "", TRUE, FALSE, 0, "", None, None) :
          doctor \in Doctors, time \in BookingTimes }
    \cup { Request("d1", "", Sep(15), None, "", TRUE, FALSE, 0, "", None, None) }

Init ==
    /\ gen = GenIdle
    /\ doctor_schedules = BookingSchedules
    /\ res = None
    /\ appointments = <<>>
    /\ requests = <<>>
    /\ keyIndex = FALSE
    /\ now = 1
    /\ procs = [p \in {1} |-> Idle]
    /\ client = Unmounted

Next ==
    \/ \E req \in PostRequests : POST_Receive(1, req)
    \/ POST_FindConflict(1)
    \/ \E random \in RandomKeys : POST_Insert(1, random)
    \/ \E req \in RequestsPostRequests : RequestsPOST_Receive(1, req)
    \/ RequestsPOST_FindConflict(1)
    \/ RequestsPOST_FindRequest(1)
    \/ \E random \in RandomKeys : RequestsPOST_Insert(1, random)
    \/ \E req \in OptimizedPostRequests : OptimizedPOST_Receive(1, req)
    \/ OptimizedPOST_FindConflict(1)
    \/ \E random \in RandomKeys : OptimizedPOST_Insert(1, random)
    \/ \E req \in PutRequests : PUT_Receive(1, req)
    \/ PUT_Find(1)
    \/ PUT_Update(1)
    \/ \E req \in OptimizedPutRequests : OptimizedPUT_Receive(1, req)
    \/ OptimizedPUT_Find(1)
    \/ OptimizedPUT_FindConflict(1)
    \/ OptimizedPUT_Update(1)
    \/ \E req \in HeadRequests : HEAD_Receive(1, req)
    \/ HEAD_Find(1)
    \/ Reply(1)

Spec == Init /\ [][Next]_vars

(***************************************************************************)
(* Two bookings of one slot in flight at once: each connection carries one *)
(* booking of (d1, 2025-09-15, 09:00), on any of the three endpoints, with *)
(* the conflict check on.                                                  *)
(***************************************************************************)
RaceProcs == {1, 2}
RacePatient == <<"p1", "p2">>
RaceBooking(p) == Booking(<<"d1", RacePatient[p]>>, T(9, 0), "", TRUE, TRUE)

RaceInit ==
    /\ gen = GenIdle
    /\ doctor_schedules = BookingSchedules
    /\ res = None
    /\ appointments = <<>>
    /\ requests = <<>>
    /\ keyIndex = FALSE
    /\ now = 1
    /\ procs = [p \in RaceProcs |-> Idle]
    /\ client = Unmounted

RaceNext ==
    \E p \in RaceProcs :
        \/ POST_Receive(p, RaceBooking(p))
        \/ POST_FindConflict(p)
        \/ \E random \in RandomKeys : POST_Insert(p, random)
        \/ RequestsPOST_Receive(p, RaceBooking(p))
        \/ RequestsPOST_FindConflict(p)
        \/ RequestsPOST_FindRequest(p)
        \/ \E random \in RandomKeys : RequestsPOST_Insert(p, random)
        \/ OptimizedPOST_Receive(p, RaceBooking(p))
        \/ OptimizedPOST_FindConflict(p)
        \/ \E random \in RandomKeys : OptimizedPOST_Insert(p, random)

SpecRace == RaceInit /\ [][RaceNext]_vars

(***************************************************************************)
(* A reschedule into Monday 09:00 of d1 races a booking of that slot, or a *)
(* second reschedule into it.  The store holds appointments that earlier   *)
(* bookings left: one of p1 at 09:15, and in the larger store one of p2 a  *)
(* week later.                                                             *)
(***************************************************************************)
Earlier ==
    << Appointment("111111", "d1", "p1", Sep(15), T(9, 15), "pending", 1),
       Appointment("222222", "d1", "p2", Sep(22), T(9, 0), "pending", 2) >>

\* connection p moves appointment p
RaceReschedules(p) ==
    { StatusUpdate(p, "", "", status, Sep(15), T(9, 0)) : status \in {"pending", "confirmed"} }

RescheduleRaceInit ==
    /\ gen = GenIdle
    /\ doctor_schedules = BookingSchedules
    /\ res = None
    /\ \E n \in 1..2 : appointments = SubSeq(Earlier, 1, n) /\ now = n + 1
    /\ requests = <<>>
    /\ keyIndex = FALSE
    /\ procs = [p \in RaceProcs |-> Idle]
    /\ client = Unmounted

RescheduleRaceNext ==
    \/ \E p \in RaceProcs :
          \/ \E req \in RaceReschedules(p) : OptimizedPUT_Receive(p, req)
          \/ OptimizedPUT_Find(p)
          \/ OptimizedPUT_FindConflict(p)
          \/ OptimizedPUT_Update(p)
    \/ OptimizedPOST_Receive(2, RaceBooking(2))
    \/ OptimizedPOST_FindConflict(2)
    \/ \E random \in RandomKeys : OptimizedPOST_Insert(2, random)

SpecRescheduleRace == RescheduleRaceInit /\ [][RescheduleRaceNext]_vars

(***************************************************************************)
(* Bookings and the slot list over a storage whose lookups may fail.       *)
(***************************************************************************)
LookupNext ==
    \/ \E req \in PostRequests : POST_Receive(1, req)
    \/ POST_FindConflict(1)
    \/ POST_LookupFails(1)
    \/ \E random \in RandomKeys : POST_Insert(1, random)
    \/ \E req \in RequestsPostRequests : RequestsPOST_Receive(1, req)
    \/ RequestsPOST_FindConflict(1)
    \/ RequestsPOST_FindRequest(1)
    \/ RequestsPOST_LookupFails(1)
    \/ \E random \in RandomKeys : RequestsPOST_Insert(1, random)
    \/ \E req \in OptimizedPostRequests : OptimizedPOST_Receive(1, req)
    \/ OptimizedPOST_FindConflict(1)
    \/ OptimizedPOST_LookupFails(1)
    \/ \E random \in RandomKeys : OptimizedPOST_Insert(1, random)
    \/ Reply(1)
    \/ \E doctor \in Doctors : Mount(doctor, Sep(15))
    \/ FetchOptimizedSchedule
    \/ \E ok \in BOOLEAN : FetchBookedSlots(ok)

SpecLookup == Init /\ [][LookupNext]_vars

(***************************************************************************)
(* The writers of doctor_schedules: the seeding GET and the update POST of *)
(* src/unnamed/part_003, and optimizeExistingData of optimize-database.    *)
(* The _id of a schedule document is its position in the collection.       *)
(***************************************************************************)
\* the doctors collection, as find({}).limit(5) returns it
SeedDoctors == <<"d1", "d2">>

\* the days literal of the seeding GET
SeedDays ==
    [i \in 1..7 |->
        CASE Weekdays[i] = "Sunday" ->
                 Day(Weekdays[i], TRUE, None, None, None, None, "30", NoSlots, NoSlots)
          [] Weekdays[i] = "Saturday" ->
                 Day(Weekdays[i], FALSE, T(10, 0), T(13, 0), None, None, "30", NoSlots, NoSlots)
          [] Weekdays[i] = "Friday" ->
                 Day(Weekdays[i], FALSE, T(9, 0), T(12, 0), None, None, "30", NoSlots, NoSlots)
          [] OTHER ->
                 Day(Weekdays[i], FALSE, T(9, 0), T(12, 0), T(14, 0), T(18, 0), "30",
                     NoSlots, NoSlots)]

\* newSchedule: no week bounds, no dateRanges, allowOutsideRange: true
SeedSchedule(doctor) == ScheduleDoc(doctor, None, None, SeedDays, None, TRUE)

\* the loop moves to the next doctor, or the handler answers after the last one
SeedGET_Advance(p) ==
    IF procs[p].cursor < Len(SeedDoctors)
    THEN procs' = [procs EXCEPT ![p].pc = "findSchedule", ![p].cursor = @ + 1]
    ELSE Answer(p, Ok)

SeedGET_Receive(p) ==
    /\ procs[p].pc = "idle"
    /\ procs' = [procs EXCEPT ![p] =
          [Started("SeedGET", NoRequest, "findSchedule") EXCEPT !.cursor = 1]]
    /\ UNCHANGED <<client, gen, doctor_schedules, res, appointments, requests, keyIndex, now>>

\* findOne({ doctorId: doctor._id })
SeedGET_FindSchedule(p) ==
    /\ At(p, "SeedGET", "findSchedule")
    /\ IF FindSchedule(LAMBDA doc : doc.doctorId = SeedDoctors[procs[p].cursor]) = 0
       THEN Goto(p, "insertSchedule")
       ELSE SeedGET_Advance(p)
    /\ UNCHANGED <<client, gen, doctor_schedules, res, appointments, requests, keyIndex, now>>

\* insertOne(newSchedule)
SeedGET_InsertSchedule(p) ==
    /\ At(p, "SeedGET", "insertSchedule")
    /\ Len(doctor_schedules) < MaxSchedules
    /\ doctor_schedules' = Append(doctor_schedules, SeedSchedule(SeedDoctors[procs[p].cursor]))
    /\ SeedGET_Advance(p)
    /\ UNCHANGED <<client, gen, res, appointments, requests, keyIndex, now>>

\* the scheduleData of a body: the fields the spread copies into the document
ScheduleData(ws, we, days) ==
    [weekStart |-> ws, weekEnd |-> we, days |-> days, dateRanges |-> None,
     allowOutsideRange |-> TRUE]

\* { doctorId: new ObjectId(doctorId), ...scheduleData, updatedAt }
UpdatedSchedule(doctor, data) ==
    ScheduleDoc(doctor, data.weekStart, data.weekEnd, data.days, data.dateRanges,
                data.allowOutsideRange)

\* replaceOne({ doctorId }, updatedSchedule, { upsert: true }): the first document of
\* the doctor is replaced, and a new one is inserted when the doctor has none
ReplaceOne(doctor, doc) ==
    LET i == FindSchedule(LAMBDA d : d.doctorId = doctor)
    IN  IF i = 0 THEN Append(doctor_schedules, doc)
        ELSE [doctor_schedules EXCEPT ![i] = doc]

\* what the update answered, and for which body
ScheduleUpdate(doctor, data, status, replaced) ==
    [endpoint |-> "schedule-update", doctorId |-> doctor, scheduleData |-> data,
     status |-> status, replaced |-> replaced]

\* POST { doctorId, scheduleData }
SchedulePOST(doctor, data) ==
    IF doctor = "" \/ data = None
    THEN /\ res' = ScheduleUpdate(doctor, data, 400, 0)
         /\ UNCHANGED <<client, gen, doctor_schedules, appointments, requests, keyIndex, now, procs>>
    ELSE /\ Len(ReplaceOne(doctor, UpdatedSchedule(doctor, data))) <= MaxSchedules
         /\ doctor_schedules' = ReplaceOne(doctor, UpdatedSchedule(doctor, data))
         /\ res' = ScheduleUpdate(doctor, data, 200,
                                  FindSchedule(LAMBDA d : d.doctorId = doctor))
         /\ UNCHANGED <<client, gen, appointments, requests, keyIndex, now, procs>>

\* { $or: [{ "days.morningSlots": { $exists: false } }, { "days.eveningSlots": { $exists: false } }] }:
\* a path through an array exists when some element has the field
Unoptimized(doc) ==
    \/ \A i \in 1..Len(doc.days) : doc.days[i].morningSlots = NoSlots
    \/ \A i \in 1..Len(doc.days) : doc.days[i].eveningSlots = NoSlots

\* the callback of doc.days.map
OptimizeDay(day) ==
    [day EXCEPT
        !.morningSlots = IF @ = NoSlots /\ day.morningStart # None /\ day.morningEnd # None
                         THEN generateTimeSlots(day.morningStart, day.morningEnd, SlotDuration(day))
                         ELSE @,
        !.eveningSlots = IF @ = NoSlots /\ day.eveningStart # None /\ day.eveningEnd # None
                         THEN generateTimeSlots(day.eveningStart, day.eveningEnd, SlotDuration(day))
                         ELSE @]

RECURSIVE UnoptimizedFrom(_)
\* the documents find(...).toArray() returns, from position i on, each with its _id
UnoptimizedFrom(i) ==
    IF i > Len(doctor_schedules) THEN <<>>
    ELSE (IF Unoptimized(doctor_schedules[i])
          THEN << [id |-> i, days |-> doctor_schedules[i].days] >> ELSE <<>>)
         \o UnoptimizedFrom(i + 1)

\* optimizeExistingData: unoptimizedDocs = await collection.find(...).limit(10).toArray()
Optimize_Find(p) ==
    /\ procs[p].pc = "idle"
    /\ procs' = [procs EXCEPT ![p] =
          IF UnoptimizedFrom(1) = <<>>
          THEN Answered("Optimize", NoRequest, Ok)
          ELSE [Started("Optimize", NoRequest, "updateSchedule") EXCEPT
                   !.found = UnoptimizedFrom(1), !.cursor = 1]]
    /\ UNCHANGED <<client, gen, doctor_schedules, res, appointments, requests, keyIndex, now>>

\* updateOne({ _id: doc._id }, { $set: { days: optimizedDays, lastOptimized } })
Optimize_Update(p) ==
    /\ At(p, "Optimize", "updateSchedule")
    /\ LET doc == procs[p].found[procs[p].cursor]
       IN  doctor_schedules' = [doctor_schedules EXCEPT ![doc.id].days =
                                   [i \in 1..Len(doc.days) |-> OptimizeDay(doc.days[i])]]
    /\ IF procs[p].cursor < Len(procs[p].found)
       THEN procs' = [procs EXCEPT ![p].cursor = @ + 1]
       ELSE Answer(p, Ok)
    /\ UNCHANGED <<client, gen, res, appointments, requests, keyIndex, now>>

\* the bodies of the update: a general schedule, one whose pre-calculated list is
\* not the generator's, and a week-specific one
MonStale == Day("Monday", FALSE, T(9, 0), T(10, 0), None, None, "30",
                <<T(9, 0), T(9, 15)>>, NoSlots)

ScheduleBodies ==
    { ScheduleData(None, None, <<MonOpen, TueOff>>),
      ScheduleData(None, None, <<MonStale>>),
      ScheduleData(Sep(15), Sep(21), <<MonOpen>>) }

ScheduleProcs == {1, 2}

SchedulesInit ==
    /\ gen = GenIdle
    /\ doctor_schedules = <<>>
    /\ res = None
    /\ appointments = <<>>
    /\ requests = <<>>
    /\ keyIndex = FALSE
    /\ now = 1
    /\ procs = [p \in ScheduleProcs |-> Idle]
    /\ client = Unmounted

SchedulesNext ==
    \/ \E p \in ScheduleProcs :
          \/ SeedGET_Receive(p)
          \/ SeedGET_FindSchedule(p)
          \/ SeedGET_InsertSchedule(p)
    \/ Optimize_Find(1)
    \/ Optimize_Update(1)
    \/ Reply(1)
    \/ \E data \in ScheduleBodies : SchedulePOST("d1", data)
    \/ SchedulePOST("", None)

SpecSchedules == SchedulesInit /\ [][SchedulesNext]_vars

(***************************************************************************)
(* The appointments that hold, and the cancelled ones that once held, the  *)
(* slot a request names.                                                   *)
(***************************************************************************)
SlotHolders(doctor, date, time) ==
    { i \in 1..Len(appointments) :
        /\ appointments[i].doctorId = doctor /\ appointments[i].date = date
        /\ appointments[i].time = time
        /\ appointments[i].status \in {"pending", "confirmed"} }

CancelledAt(doctor, date, time) ==
    { i \in 1..Len(appointments) :
        /\ appointments[i].doctorId = doctor /\ appointments[i].date = date
        /\ appointments[i].time = time
        /\ appointments[i].status = "cancelled" }

SlotConflict == Err(400, "Time slot already booked")

(***************************************************************************)
(* C1: two bookings of one free slot that run concurrently end, in every   *)
(* interleaving of their find-conflict and insert steps, with exactly one  *)
(* pending/confirmed appointment for the slot, one request answered with   *)
(* success and the other with the conflict error.                          *)
(***************************************************************************)
C1_ExactlyOneBooking ==
    (\A p \in DOMAIN procs : procs[p].pc = "done") =>
        /\ Cardinality(SlotHolders("d1", Sep(15), T(9, 0))) = 1
        /\ \E p \in DOMAIN procs :
              /\ procs[p].resp.success
              /\ \A q \in DOMAIN procs \ {p} : procs[q].resp = SlotConflict

(***************************************************************************)
(* C2: with no other request in flight, the conflict check of a booking on *)
(* /api/appointments or /api/appointment-requests for a slot that has a    *)
(* pending or confirmed appointment answers 'Time slot already booked' and *)
(* leaves the collections exactly as they were.                            *)
(***************************************************************************)
C2_ConflictRejected ==
    [][\A p \in DOMAIN procs :
          (/\ procs[p].pc = "find"
           /\ procs[p].handler \in {"POST", "RequestsPOST"}
           /\ SlotHolders(procs[p].req.doctorId, procs[p].req.date, procs[p].req.time) # {})
          => (/\ procs'[p].pc = "done"
              /\ procs'[p].resp = SlotConflict
              /\ appointments' = appointments
              /\ requests' = requests)]_vars

C2_Witness ==
    \E p \in DOMAIN procs :
        /\ procs[p].pc = "done"
        /\ procs[p].handler \in {"POST", "RequestsPOST"}
        /\ procs[p].resp = SlotConflict
        /\ \E i \in SlotHolders(procs[p].req.doctorId, procs[p].req.date, procs[p].req.time) :
              appointments[i].patientId # procs[p].req.patientId

(***************************************************************************)
(* C3: once the slot of a POST /api/appointments request holds *)
(* a cancelled appointment and no pending or confirmed one, the request    *)
(* passes the conflict check, succeeds and appends a pending appointment   *)
(* for the slot, every stored record (the cancelled one too) as it was.    *)
(***************************************************************************)
RebookCase(p) ==
    /\ procs[p].handler = "POST"
    /\ CancelledAt(procs[p].req.doctorId, procs[p].req.date, procs[p].req.time) # {}
    /\ SlotHolders(procs[p].req.doctorId, procs[p].req.date, procs[p].req.time) = {}

\* the insert step of p appended a pending appointment for the requested slot
Rebooked(p) ==
    /\ procs'[p].pc = "done" /\ procs'[p].resp.success
    /\ Len(appointments') = Len(appointments) + 1
    /\ \A i \in 1..Len(appointments) : appointments'[i] = appointments[i]
    /\ LET a == appointments'[Len(appointments')]
           r == procs[p].req
       IN  /\ a.doctorId = r.doctorId /\ a.date = r.date /\ a.time = r.time
           /\ a.patientId = r.patientId /\ a.status = "pending"

C3_RebookAfterCancel ==
    [][\A p \in DOMAIN procs :
          RebookCase(p) =>
              /\ procs[p].pc = "find" => (procs'[p].pc = "insert" /\ appointments' = appointments)
              /\ procs[p].pc = "insert" => Rebooked(p)]_vars

(***************************************************************************)
(* What does hold of a rebooking: the request passes the conflict check,   *)
(* and its insert succeeds unless the unique index on appointmentKey       *)
(* exists and refuses the new key; then the answer is 500 'Failed to       *)
(* create appointment' and the collection is as it was.  The insert always *)
(* succeeds without the index, and with a supplied key that no stored      *)
(* appointment carries.                                                    *)
(***************************************************************************)
KeyStored(key) == \E i \in 1..Len(appointments) : appointments[i].appointmentKey = key

RebookUnlessKeyCollides ==
    [][\A p \in DOMAIN procs :
          RebookCase(p) =>
              /\ procs[p].pc = "find" => (procs'[p].pc = "insert" /\ appointments' = appointments)
              /\ procs[p].pc = "insert" =>
                    \/ Rebooked(p)
                    \/ /\ keyIndex
                       /\ procs[p].req.appointmentKey # "" => KeyStored(procs[p].req.appointmentKey)
                       /\ procs'[p].pc = "done"
                       /\ procs'[p].resp = Err(500, "Failed to create appointment")
                       /\ appointments' = appointments]_vars

\* a rebooking that went through: the cancelled record and the new pending one
C3_Witness ==
    \E p \in DOMAIN procs :
        /\ procs[p].pc = "done" /\ procs[p].handler = "POST" /\ procs[p].resp.success
        /\ CancelledAt(procs[p].req.doctorId, procs[p].req.date, procs[p].req.time) # {}
        /\ appointments[Len(appointments)].status = "pending"
        /\ appointments[Len(appointments)].time = procs[p].req.time
        /\ appointments[Len(appointments)].doctorId = procs[p].req.doctorId

(***************************************************************************)
(* C4: a request that sets status 'cancelled' on an appointment it found   *)
(* already cancelled is never answered with success, and the record,       *)
(* updatedAt included, stays as it was found; on both PUT endpoints.       *)
(***************************************************************************)
C4_CancelOfCancelledRejected ==
    \A p \in DOMAIN procs :
        (/\ procs[p].pc = "done"
         /\ procs[p].handler \in {"PUT", "OptimizedPUT"}
         /\ procs[p].req.status = "cancelled"
         /\ procs[p].found # None
         /\ procs[p].found.status = "cancelled")
        => (/\ ~procs[p].resp.success
            /\ appointments[procs[p].req.appointmentId] = procs[p].found)

(***************************************************************************)
(* C5: a step turns an appointment's status into 'cancelled' only for a    *)
(* request that names the appointment's own patientId or a doctorId equal  *)
(* to the appointment's doctorId.                                          *)
(***************************************************************************)
C5_CancelOnlyByOwner ==
    [][\A i \in 1..Len(appointments) :
          (appointments[i].status # "cancelled" /\ appointments'[i].status = "cancelled")
          => \E p \in DOMAIN procs :
                /\ procs[p].pc = "update"
                /\ procs[p].req.appointmentId = i
                /\ \/ procs[p].req.patientId = appointments[i].patientId
                   \/ procs[p].req.doctorId = appointments[i].doctorId]_vars

(***************************************************************************)
(* C6: a booking request that was answered with success asked for a time   *)
(* that is one of the slots the schedule resolver produces for its doctor  *)
(* and date (none on an off-day).                                          *)
(***************************************************************************)
Range(seq) == { seq[i] : i \in 1..Len(seq) }

\* the slots the booking screen offers: /api/slots/optimized and processScheduleSlots
ResolverSlots(doctor, date) ==
    LET view == OptimizedSlotBookingLoad(doctor, date, WeekdayOf(date)).view
    IN  IF view = None THEN {} ELSE Range(view.morning) \cup Range(view.evening)

C6_BookedTimeInSlotSet ==
    \A p \in DOMAIN procs :
        (/\ procs[p].pc = "done"
         /\ procs[p].handler \in {"POST", "RequestsPOST"}
         /\ procs[p].resp.success)
        => procs[p].req.time \in ResolverSlots(procs[p].req.doctorId, procs[p].req.date)

(***************************************************************************)
(* C7: for start < end within one day and duration > 0 the returned list   *)
(* starts at start, every slot t has start <= t < end, consecutive slots   *)
(* differ by exactly duration minutes, and one more step from the last     *)
(* slot reaches or passes end.                                             *)
(***************************************************************************)
GenReturned == gen.pc = "done" /\ ~MissingBound(gen.start, gen.end)

C7_SlotBounds ==
    (GenReturned /\ ParseTime(gen.start) < ParseTime(gen.end) /\ gen.duration > 0) =>
        /\ Len(gen.slots) >= 1
        /\ gen.slots[1] = gen.start
        /\ \A i \in 1..Len(gen.slots) :
              /\ ParseTime(gen.start) <= ParseTime(gen.slots[i])
              /\ ParseTime(gen.slots[i]) < ParseTime(gen.end)
        /\ \A i \in 1..(Len(gen.slots) - 1) :
              ParseTime(gen.slots[i + 1]) - ParseTime(gen.slots[i]) = gen.duration
        /\ ParseTime(gen.slots[Len(gen.slots)]) + gen.duration >= ParseTime(gen.end)

C7_Witness ==
    /\ GenReturned
    /\ ParseTime(gen.start) < ParseTime(gen.end)
    /\ gen.duration > 0
    /\ Len(gen.slots) >= 3
    /\ ParseTime(gen.slots[Len(gen.slots)]) + gen.duration = ParseTime(gen.end)

(***************************************************************************)
(* C8: called with start < end and a duration <= 0 the generator pushes no *)
(* slot and returns no list (it reports an invalid schedule instead).      *)
(***************************************************************************)
C8_RejectsNonPositiveDuration ==
    (gen.pc # "idle" /\ ~MissingBound(gen.start, gen.end)
        /\ ParseTime(gen.start) < ParseTime(gen.end) /\ gen.duration <= 0) =>
        (gen.slots = <<>> /\ gen.pc # "done")

(***************************************************************************)
(* C9: whenever the day-schedule a client derives its slot lists from has  *)
(* isOffDay = true, both lists are empty, whatever its start, end and      *)
(* pre-calculated slot fields hold, on the weekly and the date-range path. *)
(***************************************************************************)
C9_OffDayEmpty ==
    (res # None /\ res.view # None /\ res.view.from # None /\ res.view.from.isOffDay) =>
        (res.view.morning = <<>> /\ res.view.evening = <<>>)

(***************************************************************************)
(* C10: on every resolution endpoint, resolving (doctor, D) answers from a *)
(* week-specific document covering D when the doctor has one, else from    *)
(* the doctor's general document when there is one, and with the default   *)
(* schedule when the doctor has no schedule document at all.               *)
(***************************************************************************)
DocsWhere(Filter(_)) == { i \in 1..Len(doctor_schedules) : Filter(doctor_schedules[i]) }

C10_FallbackOrder ==
    (res # None /\ res.response.date # None) =>
        LET r == res.response
            covering == DocsWhere(LAMBDA doc : CoversDate(doc, r.doctorId, r.date))
            general == DocsWhere(LAMBDA doc : IsGeneral(doc, r.doctorId))
            any == DocsWhere(LAMBDA doc : doc.doctorId = r.doctorId)
        IN  /\ covering # {} => r.docId \in covering
            /\ (covering = {} /\ general # {}) => r.docId \in general
            /\ any = {} => (r.status = 200 /\ r.scheduleType = "default")

(***************************************************************************)
(* C11: for a doctor without any schedule document every resolution        *)
(* endpoint answers 200 with the days Monday to Saturday, morning          *)
(* 09:00-12:00 and evening 14:00-18:00, and Sunday as an off-day.          *)
(***************************************************************************)
IsWorkingDefault(day) ==
    /\ ~day.isOffDay
    /\ day.morningStart = T(9, 0) /\ day.morningEnd = T(12, 0)
    /\ day.eveningStart = T(14, 0) /\ day.eveningEnd = T(18, 0)

C11_DefaultSchedule ==
    (res # None /\ DocsWhere(LAMBDA doc : doc.doctorId = res.response.doctorId) = {}) =>
        /\ res.response.status = 200
        /\ Len(res.response.days) = 7
        /\ \A i \in 1..Len(res.response.days) :
              /\ res.response.days[i].dayOfWeek = Weekdays[i]
              /\ IF Weekdays[i] = "Sunday" THEN res.response.days[i].isOffDay
                 ELSE IsWorkingDefault(res.response.days[i])

(***************************************************************************)
(* C12: the availability check answers 'unavailable' exactly when an       *)
(* appointment of that doctor, date and time has status pending or         *)
(* confirmed; a cancelled, rejected or completed one never does.           *)
(***************************************************************************)
C12_UnavailableIffHeld ==
    \A p \in DOMAIN procs :
        (procs[p].pc = "done" /\ procs[p].handler = "HEAD" /\ procs[p].resp.status # 400) =>
            LET held == SlotHolders(procs[p].req.doctorId, procs[p].req.date, procs[p].req.time)
            IN  /\ held # {} => procs[p].resp = SlotStatus(409, "unavailable")
                /\ held = {} => procs[p].resp = SlotStatus(200, "available")

\* the slot is reported free next to a cancelled, rejected or completed record of it
C12_Witness ==
    \E p \in DOMAIN procs :
        /\ procs[p].pc = "done" /\ procs[p].handler = "HEAD"
        /\ procs[p].resp = SlotStatus(200, "available")
        /\ \E i \in 1..Len(appointments) :
              /\ appointments[i].doctorId = procs[p].req.doctorId
              /\ appointments[i].date = procs[p].req.date
              /\ appointments[i].time = procs[p].req.time
              /\ appointments[i].status \in {"cancelled", "rejected", "completed"}

(***************************************************************************)
(* C13: every record a booking request adds to the appointments collection *)
(* has status 'pending' when it is created, whatever the body holds,       *)
(* autoConfirm = true included.                                            *)
(***************************************************************************)
C13_CreatedPending ==
    [][\A i \in 1..Len(appointments') :
          i > Len(appointments) => appointments'[i].status = "pending"]_vars

\* an autoConfirm request has just stored its appointment
C13_Witness ==
    \E p \in DOMAIN procs :
        /\ procs[p].pc = "done" /\ procs[p].handler = "RequestsPOST"
        /\ procs[p].req.autoConfirm /\ procs[p].resp = Ok
        /\ Len(appointments) > 0
        /\ LET a == appointments[Len(appointments)]
           IN  /\ a.doctorId = procs[p].req.doctorId /\ a.patientId = procs[p].req.patientId
               /\ a.date = procs[p].req.date /\ a.time = procs[p].req.time
               /\ a.createdAt = now - 1 /\ a.updatedAt = a.createdAt
               /\ a.status = "pending"

(***************************************************************************)
(* C14: a successful reschedule (optimized PUT with newDate and newTime)   *)
(* sets the appointment's date and time to the new values, leaves its _id, *)
(* appointmentKey, doctorId and patientId as they were, and creates,       *)
(* deletes or modifies no other appointment.                               *)
(***************************************************************************)
IsReschedule(req) == req.newDate # None /\ req.newTime # None

C14_RescheduleMovesOnlyItself ==
    [][\A p \in DOMAIN procs :
          (/\ At(p, "OptimizedPUT", "update") /\ IsReschedule(procs[p].req)
           /\ procs'[p].pc = "done" /\ procs'[p].resp = Ok) =>
              LET r  == procs[p].req
                  id == r.appointmentId
              IN  /\ Len(appointments') = Len(appointments)
                  /\ appointments'[id].date = r.newDate
                  /\ appointments'[id].time = r.newTime
                  /\ appointments'[id].appointmentKey = appointments[id].appointmentKey
                  /\ appointments'[id].doctorId = appointments[id].doctorId
                  /\ appointments'[id].patientId = appointments[id].patientId
                  /\ \A i \in 1..Len(appointments) : i # id => appointments'[i] = appointments[i]
                  /\ requests' = requests]_vars

\* a reschedule has moved one of two stored appointments to another date
C14_Witness ==
    \E p \in DOMAIN procs :
        /\ procs[p].pc = "done" /\ procs[p].handler = "OptimizedPUT"
        /\ IsReschedule(procs[p].req) /\ procs[p].resp = Ok
        /\ Len(appointments) = 2
        /\ LET id == procs[p].req.appointmentId
           IN  /\ appointments[id].date = procs[p].req.newDate
               /\ appointments[id].time = procs[p].req.newTime
               /\ procs[p].found.date # procs[p].req.newDate
               /\ appointments[id].updatedAt = now - 1

(***************************************************************************)
(* C15: a reschedule to (newDate, newTime) is rejected, the appointment's  *)
(* date, time and status staying as they were, when another pending or     *)
(* confirmed appointment of the same doctor holds (newDate, newTime); the  *)
(* appointment itself does not count, so a reschedule of an active         *)
(* appointment to its own date and time is not rejected as a conflict.     *)
(***************************************************************************)
RescheduleConflict == Err(400, "New time slot already booked")

\* a reschedule of a matched appointment has been answered
Rescheduled(p) ==
    /\ procs[p].pc = "done" /\ procs[p].handler = "OptimizedPUT"
    /\ IsReschedule(procs[p].req) /\ procs[p].found # None

C15_RescheduleConflict ==
    \A p \in DOMAIN procs :
        Rescheduled(p) =>
            LET r      == procs[p].req
                id     == r.appointmentId
                others == SlotHolders(procs[p].found.doctorId, r.newDate, r.newTime) \ {id}
            IN  /\ others # {} =>
                      /\ procs[p].resp = RescheduleConflict
                      /\ appointments[id].date = procs[p].found.date
                      /\ appointments[id].time = procs[p].found.time
                      /\ appointments[id].status = procs[p].found.status
                /\ others = {} => procs[p].resp # RescheduleConflict

\* a reschedule has been refused because another active appointment holds the slot
C15_Witness ==
    \E p \in DOMAIN procs :
        /\ Rescheduled(p) /\ procs[p].resp = RescheduleConflict
        /\ \E j \in SlotHolders(procs[p].found.doctorId, procs[p].req.newDate,
                                procs[p].req.newTime) : j # procs[p].req.appointmentId

\* an active appointment has been rescheduled to the slot it already held
C15_OwnSlotAccepted ==
    \E p \in DOMAIN procs :
        /\ Rescheduled(p) /\ procs[p].resp = Ok
        /\ procs[p].found.date = procs[p].req.newDate
        /\ procs[p].found.time = procs[p].req.newTime
        /\ procs[p].found.status \in {"pending", "confirmed"}

(***************************************************************************)
(* C16: when the lookup that tells whether a slot is free fails (a storage *)
(* error in the booking handler, a failed booked-slots fetch in the slot   *)
(* list), the slot is treated as unavailable: the booking creates no       *)
(* appointment and the slot list presents no slot of it as available.      *)
(***************************************************************************)
\* a booking handler's lookup has just failed
LookupFailed(p) ==
    /\ procs[p].pc \in {"find", "findRequest"}
    /\ procs[p].handler \in {"POST", "RequestsPOST", "OptimizedPOST"}
    /\ procs'[p].pc = "done" /\ procs'[p].resp.status = 500

BookingFailsClosed ==
    \A p \in DOMAIN procs :
        LookupFailed(p) => appointments' = appointments /\ requests' = requests

SlotListFailsClosed ==
    client.fetch = "failed" =>
        \A i \in 1..Len(RenderedSlots) : ~RenderedSlots[i].available

C16_LookupFailsClosed == []SlotListFailsClosed /\ [][BookingFailsClosed]_vars

\* the part of C16 about the booking handlers alone
C16_BookingFailsClosed == [][BookingFailsClosed]_vars

\* the slot list shows a slot as free that an active appointment holds, after the
\* fetch of the booked slots failed
C16_BookedSlotShownFree ==
    /\ client.fetch = "failed"
    /\ \E i \in 1..Len(RenderedSlots) :
          /\ RenderedSlots[i].available
          /\ SlotHolders(client.doctorId, client.selectedDate, RenderedSlots[i].time) # {}

(***************************************************************************)
(* C17: every appointment a booking request creates carries an             *)
(* appointmentKey that is a 6-digit numeric string, of value 100000 to     *)
(* 999999, whatever the body, a body with its own appointmentKey included. *)
(***************************************************************************)
\* Number(str) for the key strings of the model, -1 for any other string
KeyNumber(str) ==
    CASE str = "111111" -> 111111
      [] str = "222222" -> 222222
      [] str = "42" -> 42
      [] OTHER -> 0 - 1

IsSixDigitKey(key) == KeyNumber(key) \in 100000..999999

C17_SixDigitKeys ==
    \A i \in 1..Len(appointments) : IsSixDigitKey(appointments[i].appointmentKey)

(***************************************************************************)
(* C18: in every reachable state no two documents of the appointments      *)
(* collection carry the same appointmentKey, whichever booking endpoint    *)
(* created them.                                                           *)
(***************************************************************************)
C18_UniqueKeys ==
    \A i, j \in 1..Len(appointments) :
        i # j => appointments[i].appointmentKey # appointments[j].appointmentKey

(***************************************************************************)
(* C19: when a reschedule into (d, D, T) runs concurrently with a booking  *)
(* of (d, D, T), or with another reschedule into it, at most one of them   *)
(* succeeds: the slot is never held by two pending or confirmed            *)
(* appointments.                                                           *)
(***************************************************************************)
\* the requests for Monday 09:00 of d1 that were answered with success
SucceededInto ==
    { p \in DOMAIN procs :
        /\ procs[p].pc = "done" /\ procs[p].resp = Ok
        /\ \/ procs[p].handler = "OptimizedPUT" /\ IsReschedule(procs[p].req)
           \/ procs[p].handler = "OptimizedPOST" }

C19_RescheduleRace ==
    /\ Cardinality(SlotHolders("d1", Sep(15), T(9, 0))) <= 1
    /\ Cardinality(SucceededInto) <= 1

(***************************************************************************)
(* C20: the status of every appointment is one of pending, confirmed,      *)
(* cancelled, completed, rejected; no status update stores another value.  *)
(***************************************************************************)
C20_StatusEnum ==
    \A i \in 1..Len(appointments) :
        appointments[i].status \in {"pending", "confirmed", "cancelled", "completed", "rejected"}

(***************************************************************************)
(* C21: in every reachable state, a stored day-schedule's pre-materialized *)
(* morningSlots or eveningSlots list equals what the slot generator yields *)
(* from that day's start, end and slot duration; schedule replacement and  *)
(* the optimizeExistingData pass preserve this.                            *)
(***************************************************************************)
DayListsMatch(day) ==
    /\ day.morningSlots # NoSlots =>
          day.morningSlots = generateTimeSlots(day.morningStart, day.morningEnd, SlotDuration(day))
    /\ day.eveningSlots # NoSlots =>
          day.eveningSlots = generateTimeSlots(day.eveningStart, day.eveningEnd, SlotDuration(day))

C21_ListsMatchGenerator ==
    \A i \in 1..Len(doctor_schedules) :
        \A k \in 1..Len(doctor_schedules[i].days) : DayListsMatch(doctor_schedules[i].days[k])

\* the optimizeExistingData pass alone: a day whose lists match keeps matching lists
C21_OptimizePreserves ==
    \A i \in 1..Len(doctor_schedules) :
        \A k \in 1..Len(doctor_schedules[i].days) :
            DayListsMatch(doctor_schedules[i].days[k]) =>
                DayListsMatch(OptimizeDay(doctor_schedules[i].days[k]))

(***************************************************************************)
(* C22: resolution is deterministic: with the doctor_schedules collection  *)
(* unchanged, a resolution that repeats the request of the one before it   *)
(* (same endpoint, doctor, date and parameters) returns the same           *)
(* day-schedule and the same provenance tag, also when two week-specific   *)
(* documents of the doctor both cover the date.                            *)
(***************************************************************************)
RepeatsRequest ==
    /\ res # None
    /\ res'.response.endpoint = res.response.endpoint
    /\ res'.response.doctorId = res.response.doctorId
    /\ res'.response.date = res.response.date
    /\ res'.response.dayOfWeekParam = res.response.dayOfWeekParam

C23_DayOfDate ==
    (/\ res # None
     /\ res.response.endpoint \in {"schedule-optimized", "slots-optimized"}
     /\ res.response.date # None
     /\ res.response.selectedDay # None)
    => res.response.selectedDay.dayOfWeek = WeekdayOf(res.response.date)

\* a dated request with a dayOfWeek parameter naming another weekday was answered with one day
C23_Witness ==
    /\ res # None
    /\ res.response.endpoint \in {"schedule-optimized", "slots-optimized"}
    /\ res.response.date # None
    /\ res.response.dayOfWeekParam \notin {"", WeekdayOf(res.response.date)}
    /\ res.response.selectedDay # None

(***************************************************************************)
(* C24: when the week-specific documents covering the date have no entry   *)
(* for the date's weekday and the doctor's general schedule has one, the   *)
(* resolution answers with the general entry, and the client derives the   *)
(* general slots from it rather than an empty list.                        *)
(***************************************************************************)
\* the doctor's general schedule, 0 when there is none
GeneralOf(doctor) == FindSchedule(LAMBDA doc : IsGeneral(doc, doctor))

WeekLacksDay ==
    /\ res # None
    /\ res.response.date # None
    /\ res.response.dayOfWeekParam \in {"", WeekdayOf(res.response.date)}
    /\ LET doctor == res.response.doctorId
           date == res.response.date
           covering == DocsWhere(LAMBDA doc : CoversDate(doc, doctor, date))
       IN  /\ covering # {}
           /\ \A i \in covering : ~HasDay(doctor_schedules[i], WeekdayOf(date))
           /\ GeneralOf(doctor) # 0
           /\ doctor_schedules[GeneralOf(doctor)].dateRanges = None
           /\ HasDay(doctor_schedules[GeneralOf(doctor)], WeekdayOf(date))

C24_GeneralDayServed ==
    WeekLacksDay =>
        LET dow == WeekdayOf(res.response.date)
            general == FindDay(DocDays(GeneralOf(res.response.doctorId)), dow)
        IN  /\ res.response.docId = GeneralOf(res.response.doctorId)
            /\ IF res.response.endpoint = "schedule"
               THEN FindDay(res.response.days, dow) = general
               ELSE res.response.selectedDay = general
            /\ res.view # None => res.view = processScheduleSlots(general)

\* such a request was answered and the general entry has slots to offer
C24_Witness ==
    /\ WeekLacksDay
    /\ res.response.status = 200
    /\ LET general == FindDay(DocDays(GeneralOf(res.response.doctorId)),
                              WeekdayOf(res.response.date))
       IN  processScheduleSlots(general).morning # <<>>

\* the dialog of /api/schedule shows no slot although the general entry has some
C24_DialogEmpty ==
    /\ C24_Witness
    /\ res.response.endpoint = "schedule"
    /\ res.view.morning = <<>> /\ res.view.evening = <<>>

\* the two optimized endpoints do fall through to the general entry
C24_OptimizedServeGeneral ==
    (res # None /\ res.response.endpoint # "schedule") => C24_GeneralDayServed

(***************************************************************************)
(* C25: whatever the interleaving of seeding requests and schedule         *)
(* updates, a doctor has at most one schedule document without week        *)
(* bounds, and an update that carries a general schedule never replaces a  *)
(* week-specific document.                                                 *)
(***************************************************************************)
OneGeneralPerDoctor ==
    \A i, j \in 1..Len(doctor_schedules) :
        (/\ doctor_schedules[i].doctorId = doctor_schedules[j].doctorId
         /\ doctor_schedules[i].weekStart = None /\ doctor_schedules[i].weekEnd = None
         /\ doctor_schedules[j].weekStart = None /\ doctor_schedules[j].weekEnd = None)
        => i = j

\* the step is an update with a general body that replaced a stored document
GeneralUpdateReplaces ==
    /\ doctor_schedules' # doctor_schedules
    /\ res' # None /\ res'.endpoint = "schedule-update"
    /\ res'.status = 200 /\ res'.replaced # 0
    /\ res'.scheduleData.weekStart = None /\ res'.scheduleData.weekEnd = None

GeneralUpdateKeepsWeeks ==
    [][GeneralUpdateReplaces => doctor_schedules[res'.replaced].weekStart = None]_vars

C25_GeneralSchedules == []OneGeneralPerDoctor /\ GeneralUpdateKeepsWeeks

\* an update has been answered and the doctor has a week-specific and a general document
C25_Witness ==
    /\ \E i, j \in 1..Len(doctor_schedules) :
          /\ doctor_schedules[i].doctorId = "d1" /\ doctor_schedules[j].doctorId = "d1"
          /\ doctor_schedules[i].weekStart # None /\ doctor_schedules[j].weekStart = None
    /\ res # None /\ res.endpoint = "schedule-update" /\ res.status = 200

(***************************************************************************)
(* Status updates on a collection that already holds appointments: p1      *)
(* booked Monday 09:00 with d1 and cancelled, then p2 booked the slot.     *)
(* The three writes lie before the clock's origin.  One connection, so     *)
(* requests never overlap.                                                 *)
(***************************************************************************)
Lapsed ==
    << [Appointment("111111", "d1", "p1", Sep(15), T(9, 0), "cancelled", 0 - 2)
            EXCEPT !.updatedAt = 0 - 1],
       Appointment("222222", "d1", "p2", Sep(15), T(9, 0), "pending", 0) >>

StatusInit ==
    /\ gen = GenIdle
    /\ doctor_schedules = BookingSchedules
    /\ res = None
    /\ appointments = Lapsed
    /\ requests = <<>>
    /\ keyIndex = TRUE
    /\ now = 1
    /\ procs = [p \in {1} |-> Idle]
    /\ client = Unmounted

StatusNext ==
    \/ \E req \in PutRequests : PUT_Receive(1, req)
    \/ PUT_Find(1)
    \/ PUT_Update(1)
    \/ \E req \in OptimizedPutRequests : OptimizedPUT_Receive(1, req)
    \/ OptimizedPUT_Find(1)
    \/ OptimizedPUT_FindConflict(1)
    \/ OptimizedPUT_Update(1)
    \/ Reply(1)

SpecStatus == StatusInit /\ [][StatusNext]_vars

(***************************************************************************)
(* C26: with requests that do not overlap, no two active appointments      *)
(* share a doctor, date and time; in particular a status update that turns *)
(* a cancelled, rejected or completed appointment back to pending or       *)
(* confirmed is not applied while another active appointment holds its     *)
(* slot.                                                                   *)
(***************************************************************************)
C26_NoSharedActiveSlot ==
    \A i, j \in 1..Len(appointments) :
        (/\ IsActive(appointments[i].status) /\ IsActive(appointments[j].status)
         /\ appointments[i].doctorId = appointments[j].doctorId
         /\ appointments[i].date = appointments[j].date
         /\ appointments[i].time = appointments[j].time)
        => i = j

(***************************************************************************)
(* C27: the optimized create endpoint (POST of booked-slots/route.ts)      *)
(* never inserts an appointment for a slot that an active appointment      *)
(* holds, whatever checkConflict value the request carries.                *)
(***************************************************************************)
OptimizedInsertOnHeldSlot ==
    \E p \in DOMAIN procs :
        /\ procs[p].handler = "OptimizedPOST" /\ procs[p].pc = "insert"
        /\ Len(appointments') = Len(appointments) + 1
        /\ SlotHolders(procs[p].req.doctorId, procs[p].req.date, procs[p].req.time) # {}

C27_NoInsertOnHeldSlot == [][~OptimizedInsertOnHeldSlot]_vars

\* a request with checkConflict = false reached the insert step for a held slot
C27_Witness ==
    \E p \in DOMAIN procs :
        /\ procs[p].handler = "OptimizedPOST" /\ procs[p].pc = "insert"
        /\ ~procs[p].req.checkConflict
        /\ SlotHolders(procs[p].req.doctorId, procs[p].req.date, procs[p].req.time) # {}

(***************************************************************************)
(* C28: across appointments and _appointment together a slot never has     *)
(* more than one pending record: while a pending request for the slot is   *)
(* in _appointment no pending appointment for it is in appointments.       *)
(***************************************************************************)
C28_OnePendingAcrossCollections ==
    \A i \in 1..Len(appointments), j \in 1..Len(requests) :
        ~ (/\ appointments[i].status = "pending" /\ requests[j].status = "pending"
           /\ appointments[i].doctorId = requests[j].doctorId
           /\ appointments[i].date = requests[j].date
           /\ appointments[i].time = requests[j].time)

\* a booking reached its insert step for a slot that has a pending request in _appointment
C28_Witness ==
    \E p \in DOMAIN procs :
        /\ procs[p].handler \in {"POST", "OptimizedPOST"} /\ procs[p].pc = "insert"
        /\ FindPendingRequest(procs[p].req.doctorId, procs[p].req.date, procs[p].req.time) # 0

\* POST /api/appointments answered success for a slot with a pending request
C28_BookedOverRequest ==
    \E p \in DOMAIN procs :
        /\ procs[p].handler = "POST" /\ procs[p].pc = "done" /\ procs[p].resp.success
        /\ FindPendingRequest(procs[p].req.doctorId, procs[p].req.date, procs[p].req.time) # 0
        /\ ~C28_OnePendingAcrossCollections

(***************************************************************************)
(* Two connections, each sending one cancel request (PUT /api/appointments)*)
(* while the collection holds pending appointments.                        *)
(***************************************************************************)
CancelRequests ==
    { StatusUpdate(id, patient, "", "cancelled", None, None) :
          id \in 1..MaxAppointments, patient \in Patients }

CancelRaceInit ==
    /\ gen = GenIdle
    /\ doctor_schedules = BookingSchedules
    /\ res = None
    /\ \E n \in 1..2 : appointments = SubSeq(Earlier, 1, n) /\ now = n + 1
    /\ requests = <<>>
    /\ keyIndex = FALSE
    /\ procs = [p \in RaceProcs |-> Idle]
    /\ client = Unmounted

CancelRaceNext ==
    \E p \in RaceProcs :
        \/ \E req \in CancelRequests : PUT_Receive(p, req)
        \/ PUT_Find(p)
        \/ PUT_Update(p)

SpecCancelRace == CancelRaceInit /\ [][CancelRaceNext]_vars

(***************************************************************************)
(* C29: of two concurrent cancel requests of its patient for the same      *)
(* active appointment, in every interleaving exactly one is answered with  *)
(* success and the other with an error, and the appointment ends           *)
(* cancelled.                                                              *)
(***************************************************************************)
\* both connections have answered a cancel of appointment a sent by its patient
BothCancelsAnswered(a) ==
    \A p \in RaceProcs :
        /\ procs[p].pc = "done" /\ procs[p].handler = "PUT"
        /\ procs[p].req.appointmentId = a
        /\ procs[p].req.patientId = appointments[a].patientId

C29_ExactlyOneCancelSucceeds ==
    \A a \in 1..Len(appointments) :
        BothCancelsAnswered(a) =>
            /\ Cardinality({ p \in RaceProcs : procs[p].resp = Ok }) = 1
            /\ appointments[a].status = "cancelled"

\* both cancels found the appointment active before either wrote
C29_Witness ==
    \E a \in 1..Len(appointments) :
        /\ IsActive(appointments[a].status)
        /\ \A p \in RaceProcs :
              /\ procs[p].pc = "update" /\ procs[p].handler = "PUT"
              /\ procs[p].req.appointmentId = a

(***************************************************************************)
(* C30: once the slot view has loaded the schedule and the booked slots of *)
(* its doctor and date, every slot it shows that an active appointment     *)
(* holds is marked unavailable and every other slot available.             *)
(***************************************************************************)
\* both loads succeeded and show the collections as they are
ViewLoaded ==
    /\ client.fetch = "ok"
    /\ res # None
    /\ res = OptimizedSlotBookingLoad(client.doctorId, client.selectedDate,
                                      WeekdayOf(client.selectedDate))
    /\ client.bookedSlots = BookedSlotsGET(client.doctorId, client.selectedDate)

C30_HeldSlotsUnavailable ==
    ViewLoaded =>
        \A i \in 1..Len(RenderedSlots) :
            RenderedSlots[i].available
                <=> SlotHolders(client.doctorId, client.selectedDate,
                                RenderedSlots[i].time) = {}

\* the loaded view shows a slot that an active appointment holds
C30_Witness ==
    /\ ViewLoaded
    /\ \E i \in 1..Len(RenderedSlots) :
          SlotHolders(client.doctorId, client.selectedDate, RenderedSlots[i].time) # {}

====
